---- MODULE Spec2Model ----
(***************************************************************************)
(* A model of the futures spread pipeline:                                 *)
(*   process_futures.py        (Spread Builder: join four legs, spreads)   *)
(*   cointegration_analysis.py (Stationarity Tester: ADF test, summary)    *)
(* A function that can raise is an operator returning an outcome record    *)
(* [ok |-> TRUE, val |-> v] or [ok |-> FALSE, exc |-> name].               *)
(***************************************************************************)
EXTENDS Integers, Sequences, FiniteSets, TLC

VARIABLES
    fs,             \* the file system: path -> CSV file [columns, rows]
    table,          \* outcome of the last process_futures_data call
    built,          \* process_all_futures: its `results` dict (ft -> table)
    bpc,            \* process_all_futures: index of the next family, 0 = not running
    builds,         \* runs of process_futures.py started
    lib,            \* the installed statsmodels: [seed, constant]
    futures_types,  \* self.futures_types
    results,        \* self.results
    all_results,    \* analyze_all_futures: its `all_results` dict
    returned,       \* what the last analyze_all_futures call returned
    summary,        \* what the last generate_summary_table call returned
    apc,            \* the analyzer's position: [op, idx, last]
    calls,          \* calls of the analyzer's two public methods started
    raised,         \* the exception that left the last call, "" for none
    log,            \* what the current call printed: <<kind, FT>> per line
    reads,          \* the paths load_data was asked for in the current call
    adf_calls,      \* the perform_adf_test calls of the current call
    entry,          \* self.results when generate_summary_table was entered
    snap            \* the files that existed when the current call started

bvars == <<fs, table, built, bpc, builds>>

avars == <<lib, futures_types, results, all_results, returned, summary, apc, calls,
           raised, log, reads, adf_calls, entry, snap>>

vars == <<bvars, avars>>

----------------------------------------------------------------------------
(* Outcomes and strings *)

Ok(v) == [ok |-> TRUE, val |-> v]

Raise(e) == [ok |-> FALSE, exc |-> e]

UpperAlpha == "ABCDEFGHIJKLMNOPQRSTUVWXYZ"

LowerAlpha == "abcdefghijklmnopqrstuvwxyz"

\* the characters of a string, one by one
Chars(t) == [k \in 1..Len(t) |-> SubSeq(t, k, k)]

UpperChars == Chars(UpperAlpha)

LowerChars == Chars(LowerAlpha)

\* position of the one-character string c among chars, 0 when absent
IndexIn(c, chars) ==
    IF \E k \in DOMAIN chars : chars[k] = c
    THEN CHOOSE k \in DOMAIN chars : chars[k] = c
    ELSE 0

MapChar(c, from, to) ==
    LET k == IndexIn(c, from) IN IF k = 0 THEN c ELSE to[k]

RECURSIVE MapStr(_, _, _)
MapStr(s, from, to) ==
    IF Len(s) = 0 THEN ""
    ELSE MapChar(SubSeq(s, 1, 1), from, to) \o MapStr(Tail(s), from, to)

\* str.upper()
Upper(s) == MapStr(s, LowerChars, UpperChars)

\* str.lower()
Lower(s) == MapStr(s, UpperChars, LowerChars)

\* str.startswith(prefix)
StartsWith(s, prefix) ==
    Len(s) >= Len(prefix) /\ SubSeq(s, 1, Len(prefix)) = prefix

\* str.split(sep) for a one-character separator: the sequence of fields
RECURSIVE SplitAcc(_, _, _)
SplitAcc(s, sep, cur) ==
    IF Len(s) = 0 THEN <<cur>>
    ELSE IF SubSeq(s, 1, 1) = sep THEN <<cur>> \o SplitAcc(Tail(s), sep, "")
    ELSE SplitAcc(Tail(s), sep, cur \o SubSeq(s, 1, 1))

Split(s, sep) == SplitAcc(s, sep, "")

----------------------------------------------------------------------------
(* Cells.  A float cell is <<v>> or NaN; a raw trade_date is the integer   *)
(* YYYYMMDD; a Timestamp is a record [y, m, d].                            *)

NaN == <<>>

\* float subtraction: NaN propagates
Sub(a, b) == IF a = NaN \/ b = NaN THEN NaN ELSE <<a[1] - b[1]>>

DaysInMonth(y, m) ==
    IF m \in {4, 6, 9, 11} THEN 30
    ELSE IF m # 2 THEN 31
    ELSE IF (y % 4 = 0 /\ y % 100 # 0) \/ y % 400 = 0 THEN 29 ELSE 28

\* pd.to_datetime(x, format='%Y%m%d') of one integer
ParseYmd(n) ==
    LET y == n \div 10000
        m == (n \div 100) % 100
        d == n % 100
    IN  IF n >= 10000000 /\ n <= 99991231 /\ m \in 1..12 /\ d >= 1 /\ d <= DaysInMonth(y, m)
        THEN Ok([y |-> y, m |-> m, d |-> d])
        ELSE Raise("ValueError")

----------------------------------------------------------------------------
(* Data frames: [columns |-> sequence of names, rows |-> sequence of       *)
(* functions column -> cell].                                              *)

Range(s) == {s[k] : k \in DOMAIN s}

\* pd.read_csv(path)
read_csv(files, path) ==
    IF path \in DOMAIN files THEN Ok(files[path]) ELSE Raise("FileNotFoundError")

\* df[['trade_date', 'close']].rename(columns={'close': name})
SelectRename(df, name) ==
    IF ~({"trade_date", "close"} \subseteq Range(df.columns)) THEN Raise("KeyError")
    ELSE Ok([columns |-> <<"trade_date", name>>,
             rows |-> [k \in DOMAIN df.rows |->
                          [c \in {"trade_date", name} |->
                              IF c = name THEN df.rows[k]["close"]
                              ELSE df.rows[k]["trade_date"]]]])

\* the row of an inner join made of one left row and one right row
JoinRow(l, r) ==
    [c \in DOMAIN l \cup DOMAIN r |-> IF c \in DOMAIN l THEN l[c] ELSE r[c]]

\* the right rows matching one left row, in the right frame's order
RECURSIVE Matches(_, _)
Matches(l, rrows) ==
    IF rrows = <<>> THEN <<>>
    ELSE (IF Head(rrows)["trade_date"] = l["trade_date"]
          THEN <<JoinRow(l, Head(rrows))>> ELSE <<>>) \o Matches(l, Tail(rrows))

RECURSIVE MergeRows(_, _)
MergeRows(lrows, rrows) ==
    IF lrows = <<>> THEN <<>>
    ELSE Matches(Head(lrows), rrows) \o MergeRows(Tail(lrows), rrows)

\* how='left' instead of how='inner': an unmatched left row is kept, with
\* NaN in the right frame's columns
RECURSIVE MergeRowsLeft(_, _, _)
MergeRowsLeft(lrows, rrows, rcols) ==
    IF lrows = <<>> THEN <<>>
    ELSE (IF Matches(Head(lrows), rrows) = <<>>
          THEN <<[c \in DOMAIN Head(lrows) \cup rcols |->
                     IF c \in DOMAIN Head(lrows) THEN Head(lrows)[c] ELSE NaN]>>
          ELSE Matches(Head(lrows), rrows)) \o MergeRowsLeft(Tail(lrows), rrows, rcols)

MergeLeft(left, right) ==
    [columns |-> left.columns \o Tail(right.columns),
     rows |-> MergeRowsLeft(left.rows, right.rows, Range(right.columns))]

\* pd.merge(left, right, on='trade_date', how='inner')
Merge(left, right) ==
    [columns |-> left.columns \o Tail(right.columns),
     rows |-> MergeRows(left.rows, right.rows)]

----------------------------------------------------------------------------
(* process_futures.py *)

NumLegs == 4

Legs == 0..(NumLegs - 1)

\* f'{futures_type.upper()}0{i}.csv'
LegFile(ft, i) == Upper(ft) \o "0" \o ToString(i) \o ".csv"

\* f'close_{futures_type}{i}'
CloseCol(ft, i) == "close_" \o ft \o ToString(i)

\* f'price_spread_{futures_type}{i}_{futures_type}{j}'
SpreadCol(ft, i, j) ==
    "price_spread_" \o ft \o ToString(i) \o "_" \o ft \o ToString(j)

\* for j in range(i+1, 3): the last leg is never the second of a pair
PairsFromShort(i) == [k \in 1..(NumLegs - 2 - i) |-> <<i, i + k>>]

\* for j in range(i+1, 4)
PairsFrom(i) == [k \in 1..(NumLegs - 1 - i) |-> <<i, i + k>>]

\* for i in range(3): for j in range(i+1, 4), in loop order
RECURSIVE PairsUpTo(_)
PairsUpTo(i) == IF i < 0 THEN <<>> ELSE PairsUpTo(i - 1) \o PairsFrom(i)

SpreadPairs == PairsUpTo(NumLegs - 2)

\* df[name] = values: replaces the column when it exists, appends it otherwise
SetColumn(df, name, values) ==
    [columns |-> IF name \in Range(df.columns) THEN df.columns
                 ELSE Append(df.columns, name),
     rows |-> [k \in DOMAIN df.rows |->
                  [c \in DOMAIN df.rows[k] \cup {name} |->
                      IF c = name THEN values[k] ELSE df.rows[k][c]]]]

\* close_j - close_i: the operands swapped
SpreadValuesSwapped(df, ft, i, j) ==
    LET ci == CloseCol(ft, i)
        cj == CloseCol(ft, j)
    IN  [k \in DOMAIN df.rows |-> Sub(df.rows[k][cj], df.rows[k][ci])]

\* merged_df[f'close_{ft}{i}'] - merged_df[f'close_{ft}{j}']
SpreadValues(df, ft, i, j) ==
    LET ci == CloseCol(ft, i)
        cj == CloseCol(ft, j)
    IN  [k \in DOMAIN df.rows |-> Sub(df.rows[k][ci], df.rows[k][cj])]

RECURSIVE AddSpreads(_, _, _)
AddSpreads(df, ft, pairs) ==
    IF pairs = <<>> THEN df
    ELSE LET i == Head(pairs)[1]
             j == Head(pairs)[2]
         IN  AddSpreads(SetColumn(df, SpreadCol(ft, i, j), SpreadValues(df, ft, i, j)),
                        ft, Tail(pairs))

\* merged_df['trade_date'] = pd.to_datetime(merged_df['trade_date'], format='%Y%m%d')
ConvertDates(df) ==
    LET parsed == [k \in DOMAIN df.rows |-> ParseYmd(df.rows[k]["trade_date"])]
    IN  IF \E k \in DOMAIN df.rows : ~parsed[k].ok THEN Raise("ValueError")
        ELSE Ok(SetColumn(df, "trade_date", [k \in DOMAIN df.rows |-> parsed[k].val]))

RECURSIVE MergeAll(_, _)
MergeAll(acc, rest) ==
    IF rest = <<>> THEN acc ELSE MergeAll(Merge(acc, Head(rest)), Tail(rest))

process_futures_data(files, ft) ==
    LET raw == [i \in Legs |-> read_csv(files, LegFile(ft, i))]
    IN  IF \E i \in Legs : ~raw[i].ok THEN Raise("FileNotFoundError")
        ELSE LET sel == [i \in Legs |-> SelectRename(raw[i].val, CloseCol(ft, i))]
             IN  IF \E i \in Legs : ~sel[i].ok THEN Raise("KeyError")
                 ELSE LET dfs == [k \in 1..NumLegs |-> sel[k - 1].val]
                          merged_df == MergeAll(dfs[1], Tail(dfs))
                      IN  ConvertDates(AddSpreads(merged_df, ft, SpreadPairs))

----------------------------------------------------------------------------
(* Dates in the persisted file: to_csv writes a Timestamp as YYYY-MM-DD,   *)
(* pd.to_datetime reads it back.                                           *)

Digits == Chars("0123456789")

\* the text of n in at least w digits
Pad(n, w) ==
    LET t == ToString(n)
    IN  IF Len(t) >= w THEN t
        ELSE SubSeq("0000000000", 1, w - Len(t)) \o t

IsoText(ts) == Pad(ts.y, 4) \o "-" \o Pad(ts.m, 2) \o "-" \o Pad(ts.d, 2)

\* the value of a string of decimal digits, -1 when it is not one
RECURSIVE DigitsValue(_, _)
DigitsValue(t, acc) ==
    IF Len(t) = 0 THEN acc
    ELSE LET k == IndexIn(SubSeq(t, 1, 1), Digits)
         IN  IF k = 0 THEN -1 ELSE DigitsValue(Tail(t), 10 * acc + (k - 1))

ParseInt(t) == IF Len(t) = 0 THEN -1 ELSE DigitsValue(t, 0)

\* pd.to_datetime(text) of one YYYY-MM-DD text
ParseIso(t) ==
    LET f == Split(t, "-")
    IN  IF Len(f) # 3 THEN Raise("ValueError")
        ELSE LET y == ParseInt(f[1])
                 m == ParseInt(f[2])
                 d == ParseInt(f[3])
             IN  IF y >= 1 /\ m \in 1..12 /\ d >= 1 /\ d <= DaysInMonth(y, m)
                 THEN Ok([y |-> y, m |-> m, d |-> d])
                 ELSE Raise("ValueError")

\* df.to_csv(path, index=False): the file's content
ToCsv(df) ==
    SetColumn(df, "trade_date",
              [k \in DOMAIN df.rows |-> IsoText(df.rows[k]["trade_date"])])

\* f'{ft}_spread.csv', where process_all_futures saves a family's table
SavePath(ft) == ft \o "_spread.csv"

\* process_all_futures: futures_types
BuilderFamilies == <<"if", "ih", "ic", "im">>

----------------------------------------------------------------------------
(* Python dicts: insertion-ordered sequences of <<key, value>> *)

DictKeys(d) == [k \in DOMAIN d |-> d[k][1]]

DictHas(d, key) == \E k \in DOMAIN d : d[k][1] = key

DictGet(d, key) == d[CHOOSE k \in DOMAIN d : d[k][1] = key][2]

\* a list instead of a dict: an entry is added even when the key is present
DictAppend(d, key, value) == Append(d, <<key, value>>)

\* d[key] = value
DictSet(d, key, value) ==
    IF DictHas(d, key)
    THEN [k \in DOMAIN d |-> IF d[k][1] = key THEN <<key, value>> ELSE d[k]]
    ELSE Append(d, <<key, value>>)

----------------------------------------------------------------------------
(* cointegration_analysis.py.  Statistics are integers in units of 1e-5    *)
(* (a float cell <<v>>), or NaN.                                           *)

\* __init__: ft.lower() for ft in futures_types
Normalize(types) == [k \in DOMAIN types |-> Lower(types[k])]

\* f"data/{futures_type.lower()}_spread.csv"
LoadPath(ft) == "data/" \o Lower(ft) \o "_spread.csv"

load_data(files, ft) ==
    LET file_path == LoadPath(ft)
    IN  IF file_path \notin DOMAIN files THEN Raise("FileNotFoundError")
        ELSE LET df == files[file_path]
                 parsed == [k \in DOMAIN df.rows |-> ParseIso(df.rows[k]["trade_date"])]
             IN  IF "trade_date" \notin Range(df.columns) THEN Raise("KeyError")
                 ELSE IF \E k \in DOMAIN df.rows : ~parsed[k].ok THEN Raise("ValueError")
                 ELSE Ok(SetColumn(df, "trade_date",
                                   [k \in DOMAIN df.rows |-> parsed[k].val]))

\* df[col]
Column(df, col) == [k \in DOMAIN df.rows |-> df.rows[k][col]]

\* series.dropna()
DropNa(series) == SelectSeq(series, LAMBDA c : c # NaN)

IsConstant(x) == Len(x) >= 1 /\ \A k \in DOMAIN x : x[k] = x[1]

RECURSIVE SumSeries(_)
SumSeries(x) == IF x = <<>> THEN 0 ELSE Head(x)[1] + SumSeries(Tail(x))

\* 0.05, in units of 1e-5
Significance == 5000

\* adfuller needs nobs // 2 - 2 >= 0 for the regression with a constant
MinNobs == 4

CriticalValues == [p1 |-> <<-343000>>, p5 |-> <<-286200>>, p10 |-> <<-256700>>]

\* what the library can answer for a series it accepts: (statistic, p-value)
AdfAnswers ==
    << [stat |-> <<-412345>>, pvalue |-> <<87>>],
       [stat |-> <<-286234>>, pvalue |-> <<5000>>],
       [stat |-> <<-286194>>, pvalue |-> <<5004>>],
       [stat |-> <<-101239>>, pvalue |-> <<73456>>] >>

\* adfuller(series, autolag='AIC'): the library is a deterministic function
\* of the series; sm.seed selects which one, sm.constant what it does with
\* a constant series (current releases raise ValueError, older ones go on
\* to divide by a zero variance and answer NaN)
adfuller(sm, x) ==
    IF Len(x) = 0 THEN Raise("ValueError")
    ELSE IF IsConstant(x) THEN
        (IF sm.constant = "raise" THEN Raise("ValueError")
         ELSE Ok([stat |-> NaN, pvalue |-> NaN, crit |-> CriticalValues]))
    ELSE IF Len(x) < MinNobs THEN Raise("ValueError")
    ELSE LET a == AdfAnswers[((SumSeries(x) + sm.seed) % Len(AdfAnswers)) + 1]
         IN  Ok([stat |-> a.stat, pvalue |-> a.pvalue, crit |-> CriticalValues])

\* result[1] < 0.05: the boundary excluded
IsStationaryStrict(p) == p # NaN /\ p[1] < Significance

\* result[1] <= 0.05 (a comparison with NaN is False)
IsStationary(p) == p # NaN /\ p[1] <= Significance

perform_adf_test(sm, series, series_name) ==
    LET result == adfuller(sm, DropNa(series))
    IN  IF ~result.ok THEN result
        ELSE Ok([series_name |-> series_name,
                 adf_statistic |-> result.val.stat,
                 p_value |-> result.val.pvalue,
                 critical_values |-> result.val.crit,
                 is_stationary |-> IsStationary(result.val.pvalue)])

\* [col for col in df.columns if col.startswith('price_spread')]
SpreadCols(df) == SelectSeq(df.columns, LAMBDA col : StartsWith(col, "price_spread"))

\* contracts = col.split('_')[-2:]; f"{contracts[0]}-{contracts[1]}"
PairName(col) ==
    LET f == Split(col, "_")
    IN  f[Len(f) - 1] \o "-" \o f[Len(f)]

\* one call of perform_adf_test, as the loop makes it
AdfCall(sm, df, ft, col) ==
    [ft |-> ft, col |-> col, series |-> DropNa(Column(df, col)),
     out |-> perform_adf_test(sm, Column(df, col), PairName(col))]

\* the loop with each pair in its own try/except: a failing pair is skipped
RECURSIVE TestColsIsolated(_, _, _, _, _, _)
TestColsIsolated(sm, df, ft, cols, acc, made) ==
    IF cols = <<>> THEN [ok |-> TRUE, val |-> acc, calls |-> made]
    ELSE LET c == AdfCall(sm, df, ft, Head(cols))
         IN  TestColsIsolated(sm, df, ft, Tail(cols),
                 IF c.out.ok THEN DictSet(acc, PairName(Head(cols)), c.out.val)
                 ELSE acc,
                 Append(made, c))

\* for col in spread_cols: ...; an exception leaves the loop and the function
RECURSIVE TestCols(_, _, _, _, _, _)
TestCols(sm, df, ft, cols, acc, made) ==
    IF cols = <<>> THEN [ok |-> TRUE, val |-> acc, calls |-> made]
    ELSE LET c == AdfCall(sm, df, ft, Head(cols))
         IN  IF ~c.out.ok
             THEN [ok |-> FALSE, exc |-> c.out.exc, calls |-> Append(made, c)]
             ELSE TestCols(sm, df, ft, Tail(cols),
                           DictSet(acc, PairName(Head(cols)), c.out.val),
                           Append(made, c))

\* the outcome, with the perform_adf_test made made on the way
analyze_spread_combinations(files, sm, ft) ==
    LET ld == load_data(files, ft)
    IN  IF ~ld.ok THEN [ok |-> FALSE, exc |-> ld.exc, calls |-> <<>>]
        ELSE TestCols(sm, ld.val, ft, SpreadCols(ld.val), <<>>, <<>>)

\* except FileNotFoundError: nothing else is caught
CaughtMissingFile(exc) == exc = "FileNotFoundError"

\* except Exception: every exception the analysis raises is an Exception
Caught(exc) == exc \in {"FileNotFoundError", "KeyError", "ValueError"}

\* if True: the batch is run on every call
NeedsAnalysisAlways(res) == TRUE

\* if not self.results
NeedsAnalysis(res) == res = <<>>

\* f"{value:.4f}": four decimals, half to even; "nan" for NaN
Format4(cell) ==
    IF cell = NaN THEN "nan"
    ELSE LET v == cell[1]
             a == IF v < 0 THEN -v ELSE v
             q == a \div 10
             r == a % 10
             n == IF r > 5 \/ (r = 5 /\ q % 2 = 1) THEN q + 1 ELSE q
         IN  (IF v < 0 THEN "-" ELSE "") \o ToString(n \div 10000) \o "."
                 \o Pad(n % 10000, 4)

\* one row of the summary (lines 111-120; the column names and the verdict
\* strings are transliterated)
SummaryRow(ft, pair_name, result) ==
    [pinzhong |-> Upper(ft),
     heyuedui |-> pair_name,
     adf |-> Format4(result.adf_statistic),
     p |-> Format4(result.p_value),
     crit1 |-> Format4(result.critical_values.p1),
     crit5 |-> Format4(result.critical_values.p5),
     crit10 |-> Format4(result.critical_values.p10),
     pingwen |-> IF result.is_stationary THEN "shi" ELSE "fou"]

RECURSIVE FamilyRows(_, _)
FamilyRows(ft, contracts) ==
    IF contracts = <<>> THEN <<>>
    ELSE <<SummaryRow(ft, Head(contracts)[1], Head(contracts)[2])>>
             \o FamilyRows(ft, Tail(contracts))

\* for ft, contracts in self.results.items(): for pair_name, result in ...
RECURSIVE SummaryRows(_)
SummaryRows(res) ==
    IF res = <<>> THEN <<>>
    ELSE FamilyRows(Head(res)[1], Head(res)[2]) \o SummaryRows(Tail(res))

----------------------------------------------------------------------------
(* Input files *)

RawColumns == <<"trade_date", "close">>

\* a leg's file: its trade dates in file order and the closes beside them
RawTable(dates, closes) ==
    [columns |-> RawColumns,
     rows |-> [k \in DOMAIN dates |-> [trade_date |-> dates[k], close |-> closes[k]]]]

\* the files of one family: leg -> table, under the names the builder reads
FamilyFiles(ft, legfiles) ==
    LET name == [i \in DOMAIN legfiles |-> LegFile(ft, i)]
    IN  [p \in {name[i] : i \in DOMAIN legfiles} |->
            legfiles[CHOOSE i \in DOMAIN legfiles : name[i] = p]]

\* the union of two file systems with disjoint paths
Mount(f, g) == [p \in DOMAIN f \cup DOMAIN g |-> IF p \in DOMAIN f THEN f[p] ELSE g[p]]

RECURSIVE MountAll(_)
MountAll(list) == IF list = <<>> THEN <<>> ELSE Mount(Head(list), MountAll(Tail(list)))

NotCalled == Raise("")

Idle(last) == [op |-> "idle", idx |-> 0, last |-> last]

\* the analyzer before its constructor has run
NoAnalyzer ==
    /\ lib = [seed |-> 0, constant |-> "raise"]
    /\ futures_types = <<>>
    /\ results = <<>>
    /\ all_results = <<>>
    /\ returned = <<>>
    /\ summary = <<>>
    /\ apc = Idle("none")
    /\ calls = 0
    /\ raised = ""
    /\ log = <<>>
    /\ reads = <<>>
    /\ adf_calls = <<>>
    /\ entry = <<>>
    /\ snap = {}

----------------------------------------------------------------------------
(* SpecBuilder: one call of process_futures_data on enumerated leg files *)

MaxLen == 2

RawDates == {20240102, 20240103}

BuilderFamily == "if"

SeqsUpTo(S, n) == UNION {[1..k -> S] : k \in 0..n}

\* the close of the k-th row of a leg's file: every row of every leg carries
\* a price of its own, and no two spreads of a leg pair agree by accident
PriceOf(leg, k) == <<10 * (leg + 1) + k * k>>

RawFile(dates, leg) ==
    RawTable(dates, [k \in DOMAIN dates |-> PriceOf(leg, k)])

BuilderInit ==
    /\ \E d \in [Legs -> SeqsUpTo(RawDates, MaxLen)] :
          fs = FamilyFiles(BuilderFamily, [i \in Legs |-> RawFile(d[i], i)])
    /\ table = NotCalled
    /\ built = <<>>
    /\ bpc = 0
    /\ builds = 0
    /\ NoAnalyzer

CallProcessFuturesData ==
    /\ table = NotCalled
    /\ table' = process_futures_data(fs, BuilderFamily)
    /\ UNCHANGED <<fs, built, bpc, builds, avars>>

BuilderNext == CallProcessFuturesData

SpecBuilder == BuilderInit /\ [][BuilderNext]_vars

----------------------------------------------------------------------------
(* Spec: the two scripts, run one after the other in one working directory *)

MaxFamilies == 2

MaxCalls == 2

MaxBuilds == 1

\* what the constructor may be given
Symbols == {"if", "IF", "ih"}

AdfSeeds == {0, 1}

Days == <<20240102, 20240103, 20240104, 20240105, 20240108>>

F(x) == <<x>>

\* the closes of the four legs, by kind of family
Closes(kind) ==
    IF kind = "flat"
    THEN [i \in Legs |->
            CASE i = 0 -> <<F(10), F(12), F(11), F(15), F(14)>>
              [] i = 1 -> <<F(9), F(10), F(12), F(11), F(9)>>
              [] i = 2 -> <<F(7), F(9), F(8), F(8), F(6)>>
              [] i = 3 -> <<F(5), F(7), F(6), F(6), F(4)>>]
    ELSE [i \in Legs |->
            CASE i = 0 -> <<F(10), F(12), F(11), F(15), F(14)>>
              [] i = 1 -> <<F(9), F(10), F(12), F(11), F(9)>>
              [] i = 2 -> <<F(7), F(9), F(8), F(8), F(6)>>
              [] i = 3 -> <<F(5), F(6), F(4), F(7), NaN>>]

\* the four leg files of a family, by kind:
\*   good     five days, one close missing in the last leg
\*   flat     legs 2 and 3 move together
\*   short    leg 0 has two days only
\*   noleg    the file of leg 2 is absent
\*   baddate  leg 1 has a day that is no date
\*   nocol    leg 3 has no close column
LegFiles(kind) ==
    LET whole == [i \in Legs |-> RawTable(Days, Closes(kind)[i])]
    IN  CASE kind = "short" ->
               [whole EXCEPT ![0] = RawTable(SubSeq(Days, 1, 2), SubSeq(Closes(kind)[0], 1, 2))]
          [] kind = "noleg" -> [i \in Legs \ {2} |-> whole[i]]
          [] kind = "baddate" ->
               [whole EXCEPT ![1] = RawTable([Days EXCEPT ![2] = 20240230], Closes(kind)[1])]
          [] kind = "nocol" ->
               [whole EXCEPT ![3] = [columns |-> <<"trade_date">>,
                                     rows |-> [k \in DOMAIN Days |-> [trade_date |-> Days[k]]]]]
          [] OTHER -> whole

\* the raw files in the working directory: family -> kind
RawKinds ==
    [ft \in Range(BuilderFamilies) |->
        CASE ft = "if" -> "good" [] ft = "ih" -> "noleg"
          [] ft = "ic" -> "baddate" [] OTHER -> "nocol"]

RawDir ==
    MountAll([k \in DOMAIN BuilderFamilies |->
                 FamilyFiles(BuilderFamilies[k], LegFiles(RawKinds[BuilderFamilies[k]]))])

\* what data/ holds for a family: nothing, or a table the builder once made
DataKinds == [if : {"absent", "good", "flat", "short"}, ih : {"absent", "good"}]

DataFile(ft, kind) ==
    IF kind = "absent" THEN <<>>
    ELSE [p \in {LoadPath(ft)} |->
             ToCsv(process_futures_data(FamilyFiles(ft, LegFiles(kind)), ft).val)]

DataDir(kinds) == Mount(DataFile("if", kinds.if), DataFile("ih", kinds.ih))

Init ==
    /\ \E kinds \in DataKinds : fs = Mount(RawDir, DataDir(kinds))
    /\ table = NotCalled
    /\ built = <<>>
    /\ bpc = 0
    /\ builds = 0
    /\ lib \in [seed : AdfSeeds, constant : {"raise", "nan"}]
    /\ \E types \in SeqsUpTo(Symbols, MaxFamilies) : futures_types = Normalize(types)
    /\ results = <<>>
    /\ all_results = <<>>
    /\ returned = <<>>
    /\ summary = <<>>
    /\ apc = Idle("none")
    /\ calls = 0
    /\ raised = ""
    /\ log = <<>>
    /\ reads = <<>>
    /\ adf_calls = <<>>
    /\ entry = <<>>
    /\ snap = {}

(* process_futures.py, run before the analyzer is used *)

CallProcessAllFutures ==
    /\ calls = 0
    /\ bpc = 0
    /\ builds < MaxBuilds
    /\ builds' = builds + 1
    /\ bpc' = 1
    /\ built' = <<>>
    /\ UNCHANGED <<fs, table, avars>>

\* one iteration of `for ft in futures_types`, its try/except included
ProcessFamily ==
    /\ bpc \in DOMAIN BuilderFamilies
    /\ LET ft == BuilderFamilies[bpc]
           out == process_futures_data(fs, ft)
       IN  /\ table' = out
           /\ IF out.ok
              THEN /\ built' = DictSet(built, ft, out.val)
                   /\ fs' = [p \in DOMAIN fs \cup {SavePath(ft)} |->
                                IF p = SavePath(ft) THEN ToCsv(out.val) ELSE fs[p]]
              ELSE UNCHANGED <<built, fs>>
    /\ bpc' = bpc + 1
    /\ UNCHANGED <<builds, avars>>

ReturnProcessAllFutures ==
    /\ bpc = Len(BuilderFamilies) + 1
    /\ bpc' = 0
    /\ UNCHANGED <<fs, table, built, builds, avars>>

(* cointegration_analysis.py *)

CallAnalyzeAllFutures ==
    /\ apc.op = "idle"
    /\ bpc = 0
    /\ calls < MaxCalls
    /\ calls' = calls + 1
    /\ apc' = [op |-> "analyze", idx |-> 1, last |-> apc.last]
    /\ all_results' = <<>>
    /\ raised' = ""
    /\ log' = <<>>
    /\ reads' = <<>>
    /\ adf_calls' = <<>>
    /\ snap' = DOMAIN fs
    /\ UNCHANGED <<bvars, lib, futures_types, results, returned, summary, entry>>

\* one iteration of `for ft in self.futures_types`, its try/except included
AnalyzeFamily ==
    /\ apc.op \in {"analyze", "summary"}
    /\ apc.idx \in DOMAIN futures_types
    /\ LET ft == futures_types[apc.idx]
           out == analyze_spread_combinations(fs, lib, ft)
       IN  /\ reads' = Append(reads, LoadPath(ft))
           /\ adf_calls' = adf_calls \o out.calls
           /\ IF out.ok
              THEN /\ all_results' = DictSet(all_results, Upper(ft), out.val)
                   /\ log' = log \o << <<"start", Upper(ft)>>, <<"done", Upper(ft)>> >>
                   /\ apc' = [apc EXCEPT !.idx = @ + 1]
                   /\ UNCHANGED raised
              ELSE IF Caught(out.exc)
              THEN /\ log' = log \o << <<"start", Upper(ft)>>, <<"error", Upper(ft)>> >>
                   /\ apc' = [apc EXCEPT !.idx = @ + 1]
                   /\ UNCHANGED <<all_results, raised>>
              ELSE /\ log' = Append(log, <<"start", Upper(ft)>>)
                   /\ raised' = out.exc
                   /\ apc' = Idle(apc.op)
                   /\ UNCHANGED all_results
    /\ UNCHANGED <<bvars, lib, futures_types, results, returned, summary, calls,
                   entry, snap>>

\* self.results = all_results; return all_results
ReturnAnalyzeAllFutures ==
    /\ apc.op \in {"analyze", "summary"}
    /\ apc.idx = Len(futures_types) + 1
    /\ results' = all_results
    /\ IF apc.op = "analyze"
       THEN /\ returned' = all_results
            /\ apc' = Idle("analyze")
       ELSE /\ apc' = [apc EXCEPT !.idx = 0]
            /\ UNCHANGED returned
    /\ UNCHANGED <<bvars, lib, futures_types, all_results, summary, calls, raised,
                   log, reads, adf_calls, entry, snap>>

CallGenerateSummaryTable ==
    /\ apc.op = "idle"
    /\ bpc = 0
    /\ calls < MaxCalls
    /\ calls' = calls + 1
    /\ entry' = results
    /\ apc' = [op |-> "summary", idx |-> IF NeedsAnalysis(results) THEN 1 ELSE 0,
               last |-> apc.last]
    /\ all_results' = <<>>
    /\ raised' = ""
    /\ log' = <<>>
    /\ reads' = <<>>
    /\ adf_calls' = <<>>
    /\ snap' = DOMAIN fs
    /\ UNCHANGED <<bvars, lib, futures_types, results, returned, summary>>

\* lines 107-122: the rows, from self.results
ReturnSummary ==
    /\ apc.op = "summary"
    /\ apc.idx = 0
    /\ summary' = SummaryRows(results)
    /\ apc' = Idle("summary")
    /\ UNCHANGED <<bvars, lib, futures_types, results, all_results, returned, calls,
                   raised, log, reads, adf_calls, entry, snap>>

Next ==
    \/ CallProcessAllFutures
    \/ ProcessFamily
    \/ ReturnProcessAllFutures
    \/ CallAnalyzeAllFutures
    \/ AnalyzeFamily
    \/ ReturnAnalyzeAllFutures
    \/ CallGenerateSummaryTable
    \/ ReturnSummary

Spec == Init /\ [][Next]_vars

----------------------------------------------------------------------------
(* Properties of process_futures_data (SpecBuilder) *)

SourceRows(i) == fs[LegFile(BuilderFamily, i)].rows

SourceDates(i) == {SourceRows(i)[k].trade_date : k \in DOMAIN SourceRows(i)}

CommonDates == {d \in SourceDates(0) : \A i \in Legs : d \in SourceDates(i)}

\* no leg file names a trade date twice
UniqueDates == \A i \in Legs : Cardinality(SourceDates(i)) = Len(SourceRows(i))

\* the source rows of leg i for the date of the output row r
SourceRowsFor(i, r) ==
    {k \in DOMAIN SourceRows(i) : ParseYmd(SourceRows(i)[k].trade_date).val = r["trade_date"]}

JoinCorrect ==
    /\ Len(table.val.rows) = Cardinality(CommonDates)
    /\ \A i \in Legs : Len(table.val.rows) <= Len(SourceRows(i))
    /\ \A n \in DOMAIN table.val.rows : \A i \in Legs :
          LET r == table.val.rows[n]
          IN  /\ SourceRowsFor(i, r) # {}
              /\ \A k \in SourceRowsFor(i, r) :
                    r[CloseCol(BuilderFamily, i)] = SourceRows(i)[k].close

\* C2 as stated: for any four leg files the returned table has one row per
\* trade date common to the four, and each close_<leg> of a row is the close
\* of that leg's source row for the date.
C2_JoinAnyInput == table.ok => JoinCorrect

\* C2, amended: when no leg file names a trade date twice, the returned
\* table has one row per trade date common to the four legs (so no more rows
\* than any leg has), and each close_<leg> of a row is the close of that
\* leg's source row for the date.
C2_JoinUniqueDates == (table.ok /\ UniqueDates) => JoinCorrect

\* a join that drops a date: leg files without repeats, a date missing from
\* some leg, and a table that is not empty
C2_Witness ==
    /\ table.ok
    /\ UniqueDates
    /\ table.val.rows # <<>>
    /\ \E i \in Legs : Cardinality(SourceDates(i)) > Cardinality(CommonDates)

\* C3: in every row of the returned table and for every leg pair i < j, the
\* spread column of (i, j) is close_i minus close_j of that row.
C3_SpreadAlgebra ==
    table.ok =>
        \A n \in DOMAIN table.val.rows : \A i, j \in Legs :
            i < j =>
                LET r == table.val.rows[n]
                IN  r[SpreadCol(BuilderFamily, i, j)] =
                        <<r[CloseCol(BuilderFamily, i)][1] - r[CloseCol(BuilderFamily, j)][1]>>

\* a table of two rows whose (0, 1) spreads differ
C3_Witness ==
    /\ table.ok
    /\ Len(table.val.rows) = 2
    /\ table.val.rows[1][SpreadCol(BuilderFamily, 0, 1)]
           # table.val.rows[2][SpreadCol(BuilderFamily, 0, 1)]

\* the columns of the returned table that are neither the date nor a close
DerivedColumns ==
    SelectSeq(table.val.columns,
              LAMBDA c : c \notin {"trade_date"} \cup {CloseCol(BuilderFamily, i) : i \in Legs})

\* C4: the returned table has exactly 6 derived columns, one for each leg
\* pair i < j, none twice and none missing.
C4_PairCompleteness ==
    table.ok =>
        /\ Len(DerivedColumns) = 6
        /\ Cardinality(Range(DerivedColumns)) = 6
        /\ Range(DerivedColumns) =
               {SpreadCol(BuilderFamily, q[1], q[2]) :
                    q \in {q \in Legs \X Legs : q[1] < q[2]}}
        /\ \A n \in DOMAIN table.val.rows :
               DOMAIN table.val.rows[n] = Range(table.val.columns)

\* a returned table with rows, the last pair's column among its columns
C4_Witness ==
    /\ table.ok
    /\ table.val.rows # <<>>
    /\ SpreadCol(BuilderFamily, 2, 3) \in Range(table.val.columns)

----------------------------------------------------------------------------
(* Properties of the analyzer (Spec) *)

AnalyzeDone == apc.op = "idle" /\ apc.last = "analyze"

SummaryDone == apc.op = "idle" /\ apc.last = "summary"

KeySet(d) == Range(DictKeys(d))

\* the lines of a kind the current call printed, as the families they name
Printed(kind) == {log[k][2] : k \in {n \in DOMAIN log : log[n][1] = kind}}

\* the configured families whose analysis succeeds on the files as they are
Succeeding ==
    {Upper(futures_types[k]) :
        k \in {n \in DOMAIN futures_types :
                  analyze_spread_combinations(fs, lib, futures_types[n]).ok}}

\* C1: analyze_all_futures does not raise, goes through every configured
\* family whatever failed before it, and returns results for exactly the
\* families whose analysis succeeded; a family that failed is in neither the
\* returned results nor the summary.
C1_AggregationIsolation ==
    /\ raised = ""
    /\ AnalyzeDone =>
          /\ reads = [k \in DOMAIN futures_types |-> LoadPath(futures_types[k])]
          /\ Printed("start") = {Upper(futures_types[k]) : k \in DOMAIN futures_types}
          /\ KeySet(returned) = Succeeding
          /\ KeySet(returned) = Printed("done")
          /\ KeySet(returned) \cap Printed("error") = {}
    /\ SummaryDone =>
          \A k \in DOMAIN summary : summary[k].pinzhong \in Succeeding

\* a run in which a family failed and a later one succeeded
C1_Witness ==
    /\ AnalyzeDone
    /\ \E a, b \in DOMAIN log : a < b /\ log[a][1] = "error" /\ log[b][1] = "done"
    /\ returned # <<>>

\* every test result held in a results dict
ResultsIn(d) == UNION {{d[f][2][n][2] : n \in DOMAIN d[f][2]} : f \in DOMAIN d}

\* the result a summary row was made from
ResultOf(row) == DictGet(DictGet(results, row.pinzhong), row.heyuedui)

\* C5: a tested spread's verdict is true exactly when its p-value is at most
\* 0.05, 0.05 itself included, and its summary row shows the affirmative
\* string exactly when the verdict is true.
C5_VerdictThreshold ==
    /\ \A r \in ResultsIn(results) \cup ResultsIn(all_results) \cup ResultsIn(returned) :
          r.is_stationary <=> (r.p_value # NaN /\ r.p_value[1] <= Significance)
    /\ SummaryDone =>
          \A k \in DOMAIN summary :
              /\ (summary[k].pingwen = "shi") <=> ResultOf(summary[k]).is_stationary
              /\ summary[k].pingwen \in {"shi", "fou"}

\* a summary with a row whose p-value is 0.05 itself, shown as stationary,
\* and a row shown as not stationary
C5_Witness ==
    /\ SummaryDone
    /\ \E k \in DOMAIN summary :
          ResultOf(summary[k]).p_value = <<Significance>> /\ summary[k].pingwen = "shi"
    /\ \E k \in DOMAIN summary : summary[k].pingwen = "fou"

SummaryKeys == {<<summary[k].pinzhong, summary[k].heyuedui>> : k \in DOMAIN summary}

StoredKeys ==
    UNION {{<<results[f][1], results[f][2][n][1]>> : n \in DOMAIN results[f][2]} :
              f \in DOMAIN results}

\* C6: whatever calls were made and whatever families were configured, the
\* summary has one row for each (family, pair) of the stored results and no
\* two rows with the same (family, pair).
C6_SummaryKeysUnique ==
    SummaryDone =>
        /\ Cardinality(SummaryKeys) = Len(summary)
        /\ SummaryKeys = StoredKeys

\* a summary with rows, for a configuration naming one family twice
C6_Witness ==
    /\ SummaryDone
    /\ summary # <<>>
    /\ \E a, b \in DOMAIN futures_types : a # b /\ futures_types[a] = futures_types[b]

\* C7 as stated: once the builder's batch has saved a family's table, a later
\* analyze_all_futures for a configuration naming that family reads the
\* saved file and returns a result for each of its 6 spread columns.
C7_TesterReadsSavedFile ==
    AnalyzeDone =>
        \A k \in DOMAIN futures_types :
            LET ft == futures_types[k]
            IN  SavePath(ft) \in snap =>
                    /\ SavePath(ft) \in Range(reads)
                    /\ DictHas(returned, Upper(ft))
                    /\ Len(DictGet(returned, Upper(ft))) = 6

\* C8 as stated, whatever the error is called: perform_adf_test on a series
\* whose values are all the same ends in an error and returns no record.
C8_ConstantSeriesRaises ==
    \A k \in DOMAIN adf_calls :
        IsConstant(adf_calls[k].series) => ~adf_calls[k].out.ok

\* the pair names of all the spread columns of the file load_data reads for
\* the family of a results key
AllPairs(key) == {PairName(c) : c \in Range(SpreadCols(fs[LoadPath(key)]))}

\* C9: each family in the results analyze_all_futures returns has a result
\* for every one of its spread columns; a family with a failing pair has no
\* entry at all.
C9_FamilyAllOrNothing ==
    AnalyzeDone =>
        /\ \A f \in DOMAIN returned :
              /\ KeySet(returned[f][2]) = AllPairs(returned[f][1])
              /\ Len(returned[f][2]) = Len(SpreadCols(fs[LoadPath(returned[f][1])]))
        /\ \A k \in DOMAIN adf_calls :
              ~adf_calls[k].out.ok => ~DictHas(returned, Upper(adf_calls[k].ft))

\* a run in which a family's first pairs were tested successfully, a later
\* pair failed, and the family is not in the returned results
C9_Witness ==
    /\ AnalyzeDone
    /\ \E a, b \in DOMAIN adf_calls :
          /\ a < b
          /\ adf_calls[a].ft = adf_calls[b].ft
          /\ adf_calls[a].out.ok
          /\ ~adf_calls[b].out.ok
          /\ ~DictHas(returned, Upper(adf_calls[a].ft))

\* C10: generate_summary_table runs the batch exactly when self.results is
\* empty on entry; otherwise it reads no file, leaves self.results as it was
\* and makes its rows from it; when every family fails, the call has run
\* the whole batch and returns an empty table without raising.
C10_SummaryRunsBatchWhenEmpty ==
    /\ (apc.op = "summary" /\ apc.idx # 0) => entry = <<>>
    /\ (apc.op = "summary" /\ apc.idx = 0 /\ entry = <<>>) =>
          reads = [k \in DOMAIN futures_types |-> LoadPath(futures_types[k])]
    /\ SummaryDone =>
          /\ raised = ""
          /\ entry # <<>> =>
                /\ reads = <<>>
                /\ log = <<>>
                /\ results = entry
          /\ entry = <<>> =>
                reads = [k \in DOMAIN futures_types |-> LoadPath(futures_types[k])]
          /\ Len(summary) = Cardinality(StoredKeys)
          /\ SummaryKeys = StoredKeys
          /\ results = <<>> => summary = <<>>

\* a second call, entered with results stored by the first: nothing is read
C10_Witness ==
    /\ SummaryDone
    /\ entry # <<>>
    /\ summary # <<>>
    /\ reads = <<>>

\* a call that ran the whole batch, every family failing, after a first call
\* that had left self.results empty as well
C10_AllFailWitness ==
    /\ SummaryDone
    /\ calls = 2
    /\ futures_types # <<>>
    /\ entry = <<>>
    /\ results = <<>>
    /\ Len(reads) = Len(futures_types)
    /\ summary = <<>>

====
